---------------------------- MODULE Spec2Model ----------------------------
(***************************************************************************)
(* The snapshot store of the research agents: FileUtils (store_json_info,  *)
(* read_latest_json_file, find_latest_json_file, list_all_files,           *)
(* delete_old_files) and its duplicate in IndustryInfoUtils, over one data *)
(* directory and one wall clock.                                           *)
(*                                                                         *)
(* A file name is the sequence of its character codes, so that glob        *)
(* matching and lexicographic order are those of the real strings.  The    *)
(* clock counts seconds; a day is scaled down to SecPerDay of them.        *)
(***************************************************************************)
EXTENDS Integers, Sequences, FiniteSets, TLC

VARIABLES
    now,        \* the wall clock, in seconds (datetime.now(), file ctimes)
    dirExists,  \* whether the data directory exists
    dir,        \* the directory: its files, in the order glob lists them
    last,       \* the last call made on the store, with what it returned
    agents,     \* the invocations of the corporate agent, each with its position
    hist,       \* the price frame an analysis holds (stock.history)
    result,     \* what the last indicator, risk, sentiment or PDF call returned
    pipeline,   \* the report pipeline: the stages run and the session state
    news        \* the news list a sentiment analysis holds (stock.news)

storeVars == <<now, dirExists, dir, last>>
vars == <<now, dirExists, dir, last, agents, hist, result, pipeline, news>>

\* The agent invocations that can run side by side.
Procs == {1, 2}

---------------------------------------------------------------------------
(* Bounds of the model.                                                    *)

StartClock == 8
MaxClock == 10
MaxFiles == 3
SecPerDay == 1
MaxDays == 1

---------------------------------------------------------------------------
(* Strings, as sequences of character codes.                               *)

Underscore == <<95>>                      \* "_"
JsonExt == <<46, 106, 115, 111, 110>>     \* ".json"
SymA == <<65>>                            \* "A"
Unknown == <<117, 110, 107>>              \* "unk", standing for "unknown"
CorpInfo == <<99, 105>>                   \* "ci", standing for "corporate_info"
CorpInfoX == <<99, 105, 95, 120>>         \* "ci_x", a category that extends "ci"
Readme == <<82>>                          \* "R", a file that is not a snapshot
None == <<>>

Symbols == {SymA}
SymbolArgs == {None, SymA}
Prefixes == {CorpInfo, CorpInfoX}

Digit(d) == 48 + d

\* str1 < str2 as Python (and sorted()) compares strings.
RECURSIVE LexLess(_, _)
LexLess(a, b) ==
    IF b = <<>> THEN FALSE
    ELSE IF a = <<>> THEN TRUE
    ELSE IF Head(a) # Head(b) THEN Head(a) < Head(b)
    ELSE LexLess(Tail(a), Tail(b))

StartsWith(s, p) == Len(s) >= Len(p) /\ SubSeq(s, 1, Len(p)) = p
EndsWith(s, e) == Len(s) >= Len(e) /\ SubSeq(s, Len(s) - Len(e) + 1, Len(s)) = e

---------------------------------------------------------------------------
(* Payloads and JSON.  A payload (the info dict) has an optional "symbol"  *)
(* entry and a body of leaf values; a leaf is an int, a str, a date (not   *)
(* JSON-native: json.dump writes str(date), default=str) or a nested dict  *)
(* with a key json cannot encode (json.dump raises TypeError there).       *)

IntLeaf == [t |-> "int", v |-> "1"]
StrLeaf == [t |-> "str", v |-> "2024-01-01"]
DateLeaf == [t |-> "date", v |-> "2024-01-01"]
BadKeyLeaf == [t |-> "badkey", v |-> "k"]

NoPayload == [symbol |-> None, body |-> <<>>]

Payloads ==
    { [symbol |-> SymA, body |-> <<IntLeaf>>],
      [symbol |-> SymA, body |-> <<DateLeaf>>],
      [symbol |-> SymA, body |-> <<IntLeaf, BadKeyLeaf>>] }

\* One leaf as json.dump(..., default=str) writes it.
Encode(leaf) ==
    CASE leaf.t = "int" -> [j |-> "num", v |-> leaf.v]
      [] leaf.t = "str" -> [j |-> "str", v |-> leaf.v]
      [] leaf.t = "date" -> [j |-> "str", v |-> leaf.v]

\* One JSON value as json.load reads it.
Decode(tok) ==
    CASE tok.j = "num" -> [t |-> "int", v |-> tok.v]
      [] tok.j = "str" -> [t |-> "str", v |-> tok.v]

\* Index of the first leaf json.dump raises on, 0 when there is none.
FirstBad(body) ==
    LET bad == {i \in 1..Len(body) : body[i].t = "badkey"}
    IN IF bad = {} THEN 0 ELSE CHOOSE i \in bad : \A k \in bad : i <= k

\* What json.dump leaves in the file: the chunks written before it returned or
\* raised.  complete is FALSE for a document cut short.
JsonDump(info) ==
    LET fb == FirstBad(info.body)
        n == IF fb = 0 THEN Len(info.body) ELSE fb - 1
    IN [sym |-> info.symbol,
        doc |-> [i \in 1..n |-> Encode(info.body[i])],
        complete |-> fb = 0]

DumpRaises(info) == FirstBad(info.body) # 0

\* JsonLoad inside a try/except that returns None on a damaged document.
JsonLoad_Swallow(content) ==
    IF content.complete
    THEN [status |-> "ok",
          value |-> [symbol |-> content.sym,
                     body |-> [i \in 1..Len(content.doc) |-> Decode(content.doc[i])]]]
    ELSE [status |-> "none", value |-> NoPayload]

\* json.load on a file's content: the dict, or JSONDecodeError.
JsonLoad(content) ==
    IF content.complete
    THEN [status |-> "ok",
          value |-> [symbol |-> content.sym,
                     body |-> [i \in 1..Len(content.doc) |-> Decode(content.doc[i])]]]
    ELSE [status |-> "error", value |-> NoPayload]

---------------------------------------------------------------------------
(* The directory.  A file has a name, a creation time (os.path.getctime)   *)
(* and a content.  The order in which glob lists the files is arbitrary;   *)
(* it can change what max(files, key=os.path.getctime) returns only        *)
(* between files of equal creation time, so the directory is kept in       *)
(* creation-time order and a new file is listed at any place among the     *)
(* files created at its own time.                                          *)

NoContent == [sym |-> None, doc |-> <<>>, complete |-> FALSE]

Names(d) == {d[i].name : i \in 1..Len(d)}
IndexOf(d, name) == CHOOSE i \in 1..Len(d) : d[i].name = name
FileOf(d, name) == d[IndexOf(d, name)]

\* Strftime without zero padding of the time field ("%-S").
Strftime_Unpadded(t) ==
    <<Digit(t \div 100)>> \o Underscore \o
    (IF t % 100 < 10 THEN <<Digit(t % 10)>> ELSE <<Digit((t \div 10) % 10), Digit(t % 10)>>)

\* datetime.now().strftime("%Y%m%d_%H%M%S"), scaled down to a one-digit date
\* field, the underscore and a two-digit, zero-padded time field.
Strftime(t) ==
    <<Digit(t \div 100)>> \o Underscore \o <<Digit((t \div 10) % 10), Digit(t % 10)>>

\* f"{symbol}_{prefix}_{timestamp}.json"
FilePath(symbol, prefix, t) ==
    symbol \o Underscore \o prefix \o Underscore \o Strftime(t) \o JsonExt

\* Whether a name matches the glob pattern f"{symbol}_{prefix}_*.json".
GlobMatch(name, symbol, prefix) ==
    LET pre == symbol \o Underscore \o prefix \o Underscore
    IN /\ Len(name) >= Len(pre) + Len(JsonExt)
       /\ StartsWith(name, pre)
       /\ EndsWith(name, JsonExt)

\* glob.glob(pattern): the matching files, in listing order.
Glob(d, symbol, prefix) == SelectSeq(d, LAMBDA f : GlobMatch(f.name, symbol, prefix))

\* MaxByCtime choosing by name, as max(files) without the key would.
MaxByCtime_ByName(fs) ==
    fs[CHOOSE i \in 1..Len(fs) :
          \A k \in 1..Len(fs) : k # i => LexLess(fs[k].name, fs[i].name)]

\* max(files, key=os.path.getctime): the first file of the list no other exceeds.
MaxByCtime(fs) ==
    fs[CHOOSE i \in 1..Len(fs) :
          /\ \A k \in 1..Len(fs) : fs[k].ctime <= fs[i].ctime
          /\ \A k \in 1..(i - 1) : fs[k].ctime < fs[i].ctime]

\* if symbol is None: symbol = info.get("symbol", "unknown")
SymbolOf(info, symbol) ==
    IF symbol # None THEN symbol
    ELSE IF info.symbol # None THEN info.symbol ELSE Unknown

---------------------------------------------------------------------------
(* Calls and what they return.                                             *)

NoCall ==
    [op |-> "none", symbol |-> None, prefix |-> None, info |-> NoPayload,
     at |-> 0, status |-> "ok", path |-> None, value |-> NoPayload,
     days |-> 0, count |-> 0, failed |-> {}, fresh |-> FALSE,
     mkdir |-> FALSE, prevPath |-> None]

\* The path the call before this one returned, when it was a store.
PrevPath == IF last.op = "store" THEN last.path ELSE None

\* The places of the listing a file created at time t can take.
NewPlaces(d, t) == {j \in 1..(Len(d) + 1) : \A k \in j..Len(d) : d[k].ctime = t}

\* The directory after open(file_path, "w") and json.dump: the file at path
\* truncated and rewritten where it is, or new at place j of the listing.
WriteFile(d, j, path, info, t) ==
    LET f == [name |-> path, ctime |-> t, content |-> JsonDump(info)]
    IN IF path \in Names(d)
       THEN [d EXCEPT ![IndexOf(d, path)] = f]
       ELSE SubSeq(d, 1, j - 1) \o <<f>> \o SubSeq(d, j, Len(d))

\* FileUtils.store_json_info(info, symbol, directory, prefix)
StoreJsonInfo(info, symbolArg, prefix) ==
    LET symbol == SymbolOf(info, symbolArg)
        path == FilePath(symbol, prefix, now)
    IN /\ path \in Names(dir) \/ Len(dir) < MaxFiles
       /\ \E j \in NewPlaces(dir, now) : dir' = WriteFile(dir, j, path, info, now)
       /\ dirExists' = TRUE
       /\ last' = [NoCall EXCEPT
                     !.op = "store", !.symbol = symbol, !.prefix = prefix,
                     !.info = info, !.at = now,
                     !.status = IF DumpRaises(info) THEN "error" ELSE "ok",
                     !.path = IF DumpRaises(info) THEN None ELSE path,
                     !.mkdir = ~dirExists]
       /\ UNCHANGED now

\* ReadLatest without the "if not files: return None" guard: max() of an empty
\* list raises ValueError.
ReadLatest_NoGuard(d, symbol, prefix) ==
    LET files == Glob(d, symbol, prefix)
    IN IF files = <<>>
       THEN [status |-> "error", value |-> NoPayload]
       ELSE JsonLoad(MaxByCtime(files).content)

\* ReadLatest taking the file whose name sorts last, max(files), instead of
\* the one find_latest_json_file takes.
ReadLatest_ByName(d, symbol, prefix) ==
    LET files == Glob(d, symbol, prefix)
    IN IF files = <<>>
       THEN [status |-> "none", value |-> NoPayload]
       ELSE JsonLoad(MaxByCtime_ByName(files).content)

\* What read_latest_json_file returns on directory d: None when glob finds
\* nothing, else json.load of the latest file (JSONDecodeError propagates).
ReadLatest(d, symbol, prefix) ==
    LET files == Glob(d, symbol, prefix)
    IN IF files = <<>>
       THEN [status |-> "none", value |-> NoPayload]
       ELSE JsonLoad(MaxByCtime(files).content)

\* What find_latest_json_file returns on directory d: None, or the latest path.
FindLatest(d, symbol, prefix) ==
    LET files == Glob(d, symbol, prefix)
    IN IF files = <<>>
       THEN [status |-> "none", path |-> None]
       ELSE [status |-> "ok", path |-> MaxByCtime(files).name]

\* FileUtils.read_latest_json_file(symbol, directory, prefix)
ReadLatestJsonFile(symbol, prefix) ==
    /\ last' = [NoCall EXCEPT
                  !.op = "read", !.symbol = symbol, !.prefix = prefix,
                  !.status = ReadLatest(dir, symbol, prefix).status,
                  !.value = ReadLatest(dir, symbol, prefix).value,
                  !.prevPath = PrevPath]
    /\ UNCHANGED <<now, dirExists, dir>>

\* FileUtils.find_latest_json_file(symbol, directory, prefix)
FindLatestJsonFile(symbol, prefix) ==
    /\ last' = [NoCall EXCEPT
                  !.op = "find", !.symbol = symbol, !.prefix = prefix,
                  !.status = FindLatest(dir, symbol, prefix).status,
                  !.path = FindLatest(dir, symbol, prefix).path,
                  !.prevPath = PrevPath]
    /\ UNCHANGED <<now, dirExists, dir>>

\* FileUtils.list_all_files(directory) without a prefix: glob "*.json".
ListAllFiles(d) == {n \in Names(d) : EndsWith(n, JsonExt)}

\* OldFiles with the comparison turned round: file_time > cutoff_date.
OldFiles_Newer(d, t, days) ==
    {n \in ListAllFiles(d) : FileOf(d, n).ctime > t - days * SecPerDay}

\* OldFiles with the cutoff included: file_time <= cutoff_date.
OldFiles_Inclusive(d, t, days) ==
    {n \in ListAllFiles(d) : FileOf(d, n).ctime <= t - days * SecPerDay}

\* The files delete_old_files tries to remove: file_time < cutoff_date.
OldFiles(d, t, days) ==
    {n \in ListAllFiles(d) : FileOf(d, n).ctime < t - days * SecPerDay}

\* DeletedCount incremented before os.remove is tried.
DeletedCount_Attempts(old, failed) == Cardinality(old)

\* deleted_count of delete_old_files: one per os.remove that did not raise.
DeletedCount(old, failed) == Cardinality(old \ failed)

\* The directory after the loop of delete_old_files.
RemoveFiles(d, old, failed) == SelectSeq(d, LAMBDA f : f.name \notin old \ failed)

\* FileUtils.delete_old_files(days, directory); os.remove raises OSError on the
\* files of failed.
DeleteOldFiles(days) ==
    \E failed \in SUBSET OldFiles(dir, now, days) :
        /\ dir' = RemoveFiles(dir, OldFiles(dir, now, days), failed)
        /\ last' = [NoCall EXCEPT
                      !.op = "purge", !.days = days,
                      !.count = DeletedCount(OldFiles(dir, now, days), failed),
                      !.failed = failed]
        /\ UNCHANGED <<now, dirExists>>

\* IsFresh with the boundary included: a file exactly maxAge old is fresh.
IsFresh_Inclusive(f, t, maxAge) == t - f.ctime <= maxAge

\* "created less than 24 hours ago": now - creationTime(path) < maxAge.
IsFresh(f, t, maxAge) == t - f.ctime < maxAge

\* The agent's freshness test of a file of the directory, with the 24-hour
\* threshold.
CheckFresh(path) ==
    /\ path \in Names(dir)
    /\ last' = [NoCall EXCEPT
                  !.op = "fresh", !.path = path,
                  !.fresh = IsFresh(FileOf(dir, path), now, SecPerDay),
                  !.prevPath = PrevPath]
    /\ UNCHANGED <<now, dirExists, dir>>

\* The clock advances.
Tick ==
    /\ now < MaxClock
    /\ now' = now + 1
    /\ UNCHANGED <<dirExists, dir, last>>

---------------------------------------------------------------------------

\* A file of the directory that is no snapshot, created long ago.
ReadmeFile == [name |-> Readme, ctime |-> 0, content |-> NoContent]

\* No agent is running, no price frame is held, nothing was computed.
NoAgent == [pc |-> "idle", seen |-> {}, used |-> None, wrote |-> None]
NoAgents == [p \in Procs |-> NoAgent]
NoFrame == [bars |-> <<>>, columns |-> {}]
NoResult == [op |-> "none"]

\* The pipeline has not run: no stage done, no key in the session state.
NoPipeline == [done |-> <<>>, session |-> <<>>, report_data |-> <<>>]

\* stock.news was not read.
NoNews == [state |-> "unread", articles |-> <<>>]

StoreInit ==
    /\ now = StartClock
    /\ dirExists \in BOOLEAN
    /\ dir \in IF dirExists THEN {<<>>, <<ReadmeFile>>} ELSE {<<>>}
    /\ last = NoCall

Init ==
    /\ StoreInit
    /\ agents = NoAgents
    /\ hist = NoFrame
    /\ result = NoResult
    /\ pipeline = NoPipeline
    /\ news = NoNews

\* The calls on the store, made one after another by one caller.
Next ==
    \/ Tick /\ UNCHANGED <<agents, hist, result, pipeline, news>>
    \/ \E info \in Payloads, s \in SymbolArgs, p \in Prefixes :
          StoreJsonInfo(info, s, p) /\ UNCHANGED <<agents, hist, result, pipeline, news>>
    \/ \E s \in Symbols, p \in Prefixes :
          ReadLatestJsonFile(s, p) /\ UNCHANGED <<agents, hist, result, pipeline, news>>
    \/ \E s \in Symbols, p \in Prefixes :
          FindLatestJsonFile(s, p) /\ UNCHANGED <<agents, hist, result, pipeline, news>>
    \/ \E days \in 0..MaxDays : DeleteOldFiles(days) /\ UNCHANGED <<agents, hist, result, pipeline, news>>
    \/ \E path \in Names(dir) : CheckFresh(path) /\ UNCHANGED <<agents, hist, result, pipeline, news>>

Spec == Init /\ [][Next]_vars

---------------------------------------------------------------------------
(* Steps of the calls, as seen from two consecutive states.                *)

\* The names glob would match, stated on the names.
Matching(d, symbol, prefix) ==
    {n \in Names(d) : /\ StartsWith(n, symbol \o Underscore \o prefix \o Underscore)
                      /\ EndsWith(n, JsonExt)
                      /\ Len(n) >= Len(symbol) + Len(prefix) + 2 + Len(JsonExt)}

Ctime(d, n) == FileOf(d, n).ctime
Content(d, n) == FileOf(d, n).content
IsJson(n) == EndsWith(n, JsonExt)
IsOld(d, n, t, days) == Ctime(d, n) < t - days * SecPerDay

ReadAfterStore ==
    /\ last.op = "store" /\ last.status = "ok"
    /\ last'.op = "read" /\ last'.symbol = last.symbol /\ last'.prefix = last.prefix

StoreStep ==
    /\ last'.op = "store" /\ last'.status = "ok"
    /\ now' = now
    /\ (last' # last \/ dir' # dir)

PurgeStep ==
    /\ last'.op = "purge"
    /\ now' = now
    /\ (last' # last \/ dir' # dir)

FreshStep ==
    /\ last'.op = "fresh"
    /\ now' = now
    /\ last' # last

---------------------------------------------------------------------------
(* C1: store(category, symbol, payload) followed by readLatest(category,   *)
(* symbol) returns a payload equal to the one stored, up to JSON           *)
(* serialization, whatever files were already in the directory.            *)
C1_StoreThenReadRoundTrips ==
    [][ReadAfterStore =>
          /\ last'.status = "ok"
          /\ JsonDump(last'.value) = JsonDump(last.info)]_vars

(* C2: findLatest returns, among the files matching                        *)
(* {symbol}_{category}_*.json, one whose creation time no other matching   *)
(* file exceeds, whatever the order of the file names.                     *)
C2_FindLatestIsNewest ==
    (last.op = "find" /\ Matching(dir, last.symbol, last.prefix) # {}) =>
        /\ last.status = "ok"
        /\ last.path \in Matching(dir, last.symbol, last.prefix)
        /\ \A n \in Matching(dir, last.symbol, last.prefix) :
              Ctime(dir, n) <= Ctime(dir, last.path)

\* Three matching files created at three different times, the newest of which
\* is returned although another one has the greatest name.
C2_Witness ==
    /\ last.op = "find"
    /\ Cardinality({Ctime(dir, n) : n \in Matching(dir, last.symbol, last.prefix)}) = 3
    /\ \E n \in Matching(dir, last.symbol, last.prefix) : LexLess(last.path, n)

(* C3: when no file matches {symbol}_{category}_*.json, findLatest and     *)
(* readLatest return None, raise nothing and leave the directory as it is. *)
C3_AbsentWhenNoMatch ==
    [][(last'.op \in {"find", "read"}
        /\ Matching(dir, last'.symbol, last'.prefix) = {}) =>
          /\ last'.status = "none"
          /\ last'.path = None
          /\ last'.value = NoPayload
          /\ dir' = dir
          /\ dirExists' = dirExists]_vars

\* A lookup that found nothing while the directory holds other files.
C3_Witness ==
    /\ last.op \in {"find", "read"}
    /\ last.status = "none"
    /\ Matching(dir, last.symbol, last.prefix) = {}
    /\ Len(dir) >= 2

(* C4: snapshot files are append-only: every successful store creates a    *)
(* new file and changes no file an earlier store wrote, so that n stores   *)
(* leave n files.                                                          *)
C4_StoreIsAppendOnly ==
    [][StoreStep =>
          /\ Len(dir') = Len(dir) + 1
          /\ \A n \in Names(dir) : n \in Names(dir') /\ FileOf(dir', n) = FileOf(dir, n)]_vars

(* C5: isFresh(path, maxAge) is true iff now - creationTime(path) < maxAge; *)
(* asked about the path a store has just returned, it is true until the    *)
(* clock has advanced by the max age and false from then on.               *)
C5_FreshIffYoungerThanMaxAge ==
    [][FreshStep =>
          /\ last'.path \in Names(dir)
          /\ last'.fresh <=> (now - Ctime(dir, last'.path) < SecPerDay)
          /\ (last.op = "store" /\ last.status = "ok" /\ last'.path = last.path) =>
                (last'.fresh <=> (now - last.at < SecPerDay))]_vars

\* The path a store returned is found stale once more than the max age has passed.
C5_Witness ==
    /\ last.op = "fresh"
    /\ last.prevPath = last.path
    /\ ~last.fresh
    /\ last.path \in Names(dir)
    /\ now - Ctime(dir, last.path) = SecPerDay + 1

C7_PurgeIsBestEffort ==
    [][PurgeStep =>
          /\ last'.status = "ok"
          /\ \A n \in last'.failed : n \in Names(dir') /\ FileOf(dir', n) = FileOf(dir, n)
          /\ \A n \in ListAllFiles(dir) :
                (IsOld(dir, n, now, last'.days) /\ n \notin last'.failed)
                    => n \notin Names(dir')
          /\ last'.count = Cardinality(Names(dir) \ Names(dir'))]_vars

\* A sweep in which one removal failed and another succeeded.
C7_Witness ==
    /\ last.op = "purge"
    /\ last.failed # {}
    /\ last.count >= 1
    /\ last.failed \subseteq Names(dir)

(* C8: store writes {symbol}_{category}_{timestamp}.json, the timestamp    *)
(* being the wall clock in the fixed-width format, returns that path, and  *)
(* creates the directory when it does not exist.                           *)
C8_StorePathAndDirectory ==
    [][StoreStep =>
          LET pre == last'.symbol \o Underscore \o last'.prefix \o Underscore
              path == last'.path
              ts == SubSeq(path, Len(pre) + 1, Len(path) - Len(JsonExt))
          IN /\ StartsWith(path, pre)
             /\ EndsWith(path, JsonExt)
             /\ Len(ts) = 4
             /\ ts[2] = 95
             /\ \A k \in {1, 3, 4} : ts[k] \in 48..57
             /\ (ts[1] - 48) * 100 + (ts[3] - 48) * 10 + (ts[4] - 48) = now
             /\ dirExists'
             /\ path \in Names(dir')
             /\ Content(dir', path) = JsonDump(last'.info)]_vars

\* A store that had to create the directory.
C8_Witness ==
    /\ last.op = "store"
    /\ last.status = "ok"
    /\ last.mkdir
    /\ dirExists
    /\ last.path \in Names(dir)

(* C9: for one (symbol, category), file names sort in creation order: the  *)
(* name a store writes sorts strictly after the name of every snapshot of  *)
(* that (symbol, category) stored before it.                               *)
C9_NamesSortByCreation ==
    [][StoreStep =>
          \A n \in Names(dir) :
              (\E t \in 0..now : n = FilePath(last'.symbol, last'.prefix, t))
                  => LexLess(n, last'.path)]_vars

(* C10: when the latest matching file holds a damaged JSON document,       *)
(* readLatest fails with the read error; it neither returns None nor falls *)
(* back to an older snapshot.                                              *)
C10_CorruptLatestRaises ==
    (/\ last.op = "read"
     /\ Matching(dir, last.symbol, last.prefix) # {}
     /\ \A n \in Matching(dir, last.symbol, last.prefix) :
           (\A m \in Matching(dir, last.symbol, last.prefix) : Ctime(dir, m) <= Ctime(dir, n))
               => ~Content(dir, n).complete)
        => last.status = "error"

\* The read failed although an older, intact snapshot was there to fall back to.
C10_Witness ==
    /\ last.op = "read"
    /\ last.status = "error"
    /\ \E n, m \in Matching(dir, last.symbol, last.prefix) :
          /\ Ctime(dir, m) < Ctime(dir, n)
          /\ Content(dir, m).complete
          /\ ~Content(dir, n).complete

---------------------------------------------------------------------------
(* The corporate agent: it looks the latest stored file up and, unless one *)
(* exists that was created less than 24 hours ago, fetches and stores a    *)
(* new one.  Several invocations run side by side on one data directory;   *)
(* each tool call is one step.                                             *)

\* NeedsFetch under a lock per (symbol, prefix): no fetch is decided while
\* another invocation is about to fetch.
NeedsFetch_Exclusive(d, t, symbol, prefix) ==
    /\ \/ FindLatest(d, symbol, prefix).status = "none"
       \/ ~IsFresh(FileOf(d, FindLatest(d, symbol, prefix).path), t, SecPerDay)
    /\ \A q \in Procs : agents[q].pc # "fetch"

\* NeedsFetch ignoring what the lookup returned: the agent always fetches.
NeedsFetch_Always(d, t, symbol, prefix) == TRUE

\* "If it exists and was created less than 24 hours ago, return the data file
\* path. Otherwise, use fetch_and_store_info": whether the agent goes on to fetch.
NeedsFetch(d, t, symbol, prefix) ==
    \/ FindLatest(d, symbol, prefix).status = "none"
    \/ ~IsFresh(FileOf(d, FindLatest(d, symbol, prefix).path), t, SecPerDay)

\* The agent calls find_local_stored_latest_corporate_info_file(symbol) and
\* decides on what it returned.
Lookup(p) ==
    /\ agents[p].pc = "idle"
    /\ FindLatestJsonFile(SymA, CorpInfo)
    /\ agents' = [agents EXCEPT ![p] =
                    [pc |-> IF NeedsFetch(dir, now, SymA, CorpInfo) THEN "fetch" ELSE "done",
                     seen |-> Names(dir),
                     used |-> IF NeedsFetch(dir, now, SymA, CorpInfo)
                              THEN None ELSE FindLatest(dir, SymA, CorpInfo).path,
                     wrote |-> None]]
    /\ UNCHANGED <<hist, result, pipeline, news>>

\* The agent calls CorporateInfoUtils.fetch_and_store_info(symbol).
FetchAndStore(p) ==
    /\ agents[p].pc = "fetch"
    /\ \E info \in Payloads : StoreJsonInfo(info, SymA, CorpInfo)
    /\ agents' = [agents EXCEPT ![p].pc = "done", ![p].wrote = last'.path]
    /\ UNCHANGED <<hist, result, pipeline, news>>

\* The agent has answered and is invoked again.
NewRequest(p) ==
    /\ agents[p].pc = "done"
    /\ agents' = [agents EXCEPT ![p] = NoAgent]
    /\ UNCHANGED <<now, dirExists, dir, last, hist, result, pipeline, news>>

AgentNext ==
    \/ Tick /\ UNCHANGED <<agents, hist, result, pipeline, news>>
    \/ \E p \in Procs : Lookup(p)
    \/ \E p \in Procs : FetchAndStore(p)
    \/ \E p \in Procs : NewRequest(p)

AgentSpec == Init /\ [][AgentNext]_vars

LookupStep(p) == agents[p].pc = "idle" /\ agents'[p].pc # "idle"
FetchStep(p) == agents[p].pc = "fetch" /\ agents'[p].pc = "done"

\* Whether the directory holds a file of (symbol, prefix) younger than 24 hours.
HasFresh(d, t, symbol, prefix) ==
    \E n \in Matching(d, symbol, prefix) : t - Ctime(d, n) < SecPerDay

(* C11: nothing in find_latest_json_file or store_json_info excludes other *)
(* invocations: a lookup decides to fetch exactly when the directory it    *)
(* sees holds no fresh file, whatever the other invocations are doing, and *)
(* a fetch that was decided stores its file even when another invocation   *)
(* has stored one since the lookup; so two invocations can both find no    *)
(* fresh file and both store, leaving two new snapshots.                   *)
C11_NoMutualExclusion ==
    [][\A p \in Procs :
          /\ LookupStep(p) =>
                (agents'[p].pc = "fetch" <=> ~HasFresh(dir, now, SymA, CorpInfo))
          /\ (FetchStep(p) /\ last'.status = "ok") =>
                /\ agents'[p].wrote = FilePath(SymA, CorpInfo, now)
                /\ agents'[p].wrote \in Names(dir')]_vars

\* Both invocations looked before either stored, both fetched, and the
\* directory now holds the two snapshots they wrote.
C11_Witness ==
    /\ \A p \in Procs : agents[p].pc = "done" /\ agents[p].wrote # None
    /\ agents[1].wrote # agents[2].wrote
    /\ \A p, q \in Procs : agents[q].wrote \notin agents[p].seen
    /\ \A p \in Procs : agents[p].wrote \in Names(dir)
    /\ \A p \in Procs : Matching(dir, SymA, CorpInfo) \ agents[p].seen
                            = {agents[1].wrote, agents[2].wrote}

---------------------------------------------------------------------------
(* Numbers.  The analyses compute in floating point; the values are kept   *)
(* here as exact fractions n/d in lowest terms, with the three values      *)
(* division and missing data add to them: d = 0 with n = 0 is NaN, with    *)
(* n = 1 or -1 an infinity.  Rounding is not modelled.                     *)

Abs(i) == IF i < 0 THEN -i ELSE i

RECURSIVE Gcd(_, _)
Gcd(a, b) == IF b = 0 THEN a ELSE Gcd(b, a % b)

Lcm(a, b) == (a \div Gcd(a, b)) * b

NaN == [n |-> 0, d |-> 0]
Inf == [n |-> 1, d |-> 0]
NegInf == [n |-> -1, d |-> 0]

\* The fraction n/d, d # 0, in lowest terms with a positive denominator.
Rat(n, d) ==
    LET g == Gcd(Abs(n), Abs(d))
    IN IF d < 0 THEN [n |-> (-n) \div g, d |-> (-d) \div g]
                ELSE [n |-> n \div g, d |-> d \div g]

Num(i) == [n |-> i, d |-> 1]
IsNaN(x) == x.d = 0 /\ x.n = 0
IsFinite(x) == x.d # 0
Sign(x) == IF x.n > 0 THEN 1 ELSE IF x.n < 0 THEN -1 ELSE 0

FNeg(x) == [n |-> -x.n, d |-> x.d]

FAdd(x, y) ==
    IF IsNaN(x) \/ IsNaN(y) THEN NaN
    ELSE IF ~IsFinite(x) THEN (IF ~IsFinite(y) /\ y.n # x.n THEN NaN ELSE x)
    ELSE IF ~IsFinite(y) THEN y
    ELSE LET l == Lcm(x.d, y.d)
         IN Rat(x.n * (l \div x.d) + y.n * (l \div y.d), l)

FSub(x, y) == FAdd(x, FNeg(y))

FMul(x, y) ==
    IF IsNaN(x) \/ IsNaN(y) THEN NaN
    ELSE IF ~IsFinite(x) \/ ~IsFinite(y)
         THEN (IF Sign(x) * Sign(y) = 0 THEN NaN
               ELSE IF Sign(x) * Sign(y) > 0 THEN Inf ELSE NegInf)
    ELSE LET g1 == Gcd(Abs(x.n), y.d)
             g2 == Gcd(Abs(y.n), x.d)
         IN Rat((x.n \div g1) * (y.n \div g2), (x.d \div g2) * (y.d \div g1))

\* x / y as floating point divides: 0/0 is NaN, a nonzero value over 0 an
\* infinity, a finite value over an infinity 0.
FDiv(x, y) ==
    IF IsNaN(x) \/ IsNaN(y) THEN NaN
    ELSE IF ~IsFinite(y) THEN (IF ~IsFinite(x) THEN NaN ELSE Num(0))
    ELSE IF y.n = 0
         THEN (IF Sign(x) = 0 THEN NaN ELSE IF Sign(x) > 0 THEN Inf ELSE NegInf)
    ELSE FMul(x, Rat(y.d, y.n))

\* x < y; false when either is NaN.
FLess(x, y) ==
    IF IsNaN(x) \/ IsNaN(y) THEN FALSE
    ELSE IF ~IsFinite(x) THEN x.n < 0 /\ y # x
    ELSE IF ~IsFinite(y) THEN y.n > 0
    ELSE LET l == Lcm(x.d, y.d)
         IN x.n * (l \div x.d) < y.n * (l \div y.d)

FLeq(x, y) == ~IsNaN(x) /\ ~IsNaN(y) /\ ~FLess(y, x)

\* The sum of f[a], ..., f[b] (0 when a > b).
RECURSIVE FSum(_, _, _)
FSum(f, a, b) == IF a > b THEN Num(0) ELSE FAdd(FSum(f, a, b - 1), f[b])

\* k times the square root of v, added to a: kept as the three of them.
\* It is NaN when a or v is.
Surd(a, k, v) == [a |-> a, k |-> k, v |-> v]
IsNull(x) == IF "v" \in DOMAIN x THEN IsNaN(x.a) \/ IsNaN(x.v) ELSE IsNaN(x)

---------------------------------------------------------------------------
(* The indicator engine: calculate_technical_indicators and                *)
(* calculate_volatility_metrics on a price frame.  The windows and spans   *)
(* are scaled down, in the order the code has them: 9 < 12 < 26 for the    *)
(* spans and 14 < 20 < 50 < 200 for the windows.                           *)

MaxBars == 4        \* the longest price frame
SmaShort == 2       \* rolling(window=20)
SmaMid == 3         \* rolling(window=50)
SmaLong == 4        \* rolling(window=200)
RsiWindow == 2      \* rolling(window=14)
BollWindow == 2     \* rolling(window=20) of the Bollinger bands
SpanSignal == 1     \* ewm(span=9)
SpanFast == 3       \* ewm(span=12)
SpanSlow == 7       \* ewm(span=26)
TradingDays == 252  \* np.sqrt(252)

ClosePrices == {80, 90, 100, 110, 120}

\* A daily bar of stock.history; a bar is told by its close.
Bar(c) == [Open |-> c, High |-> c, Low |-> c, Close |-> c, Volume |-> 1]

BaseColumns == {"Open", "High", "Low", "Close", "Volume"}
TechnicalColumns ==
    {"SMA_20", "SMA_50", "SMA_200", "RSI", "MACD", "Signal_Line",
     "BB_Middle", "BB_Upper", "BB_Lower"}

\* The frames stock.history can return: up to MaxBars bars, or none.
Frames ==
    UNION {{[bars |-> [i \in 1..n |-> Bar(cs[i])], columns |-> BaseColumns] :
               cs \in [1..n -> ClosePrices]} : n \in 0..MaxBars}

\* hist['Close']
Close(bars) == [i \in 1..Len(bars) |-> Num(bars[i].Close)]

\* xs.rolling(window=w).mean(), at bar i
RollingMean(xs, w, i) ==
    IF i < w THEN NaN ELSE FDiv(FSum(xs, i - w + 1, i), Num(w))

\* RollingVar dividing by w instead of w - 1 (ddof = 0).
RollingVar_Population(xs, w, i) ==
    IF i < w \/ w < 2 THEN NaN
    ELSE LET m == RollingMean(xs, w, i)
             sq == [j \in 1..Len(xs) |-> FMul(FSub(xs[j], m), FSub(xs[j], m))]
         IN FDiv(FSum(sq, i - w + 1, i), Num(w))

\* The square of xs.rolling(window=w).std(), at bar i (ddof = 1).
RollingVar(xs, w, i) ==
    IF i < w \/ w < 2 THEN NaN
    ELSE LET m == RollingMean(xs, w, i)
             sq == [j \in 1..Len(xs) |-> FMul(FSub(xs[j], m), FSub(xs[j], m))]
         IN FDiv(FSum(sq, i - w + 1, i), Num(w - 1))

\* xs.diff(), at bar i
Diff(xs, i) == IF i = 1 THEN NaN ELSE FSub(xs[i], xs[i - 1])

\* delta.where(delta > 0, 0): the first bar's NaN is replaced by 0 as well.
Gain(xs) ==
    [i \in 1..Len(xs) |-> IF FLess(Num(0), Diff(xs, i)) THEN Diff(xs, i) ELSE Num(0)]

\* -delta.where(delta < 0, 0)
Loss(xs) ==
    [i \in 1..Len(xs) |-> FNeg(IF FLess(Diff(xs, i), Num(0)) THEN Diff(xs, i) ELSE Num(0))]

\* rs = gain / loss; 100 - (100 / (1 + rs)), at bar i
Rsi(xs, i) ==
    LET gain == RollingMean(Gain(xs), RsiWindow, i)
        loss == RollingMean(Loss(xs), RsiWindow, i)
        rs == FDiv(gain, loss)
    IN FSub(Num(100), FDiv(Num(100), FAdd(Num(1), rs)))

\* xs.ewm(span=span, adjust=False).mean(), at bar i: seeded by the first
\* value, y[i] = (1 - a) y[i-1] + a xs[i] with a = 2 / (span + 1).
RECURSIVE Ewm(_, _, _)
Ewm(xs, span, i) ==
    IF i = 1 THEN xs[1]
    ELSE FAdd(FMul(Rat(span - 1, span + 1), Ewm(xs, span, i - 1)),
              FMul(Rat(2, span + 1), xs[i]))

\* Macd with the two averages the other way round.
Macd_Swapped(xs) ==
    [i \in 1..Len(xs) |-> FSub(Ewm(xs, SpanSlow, i), Ewm(xs, SpanFast, i))]

\* hist['MACD'] = exp1 - exp2
Macd(xs) ==
    [i \in 1..Len(xs) |-> FSub(Ewm(xs, SpanFast, i), Ewm(xs, SpanSlow, i))]

\* The dict calculate_technical_indicators returns, from the last bar.
TechnicalIndicators(bars) ==
    LET xs == Close(bars)
        i == Len(bars)
        middle == RollingMean(xs, BollWindow, i)
    IN [price |-> [current |-> Num(bars[i].Close), open |-> Num(bars[i].Open),
                   high |-> Num(bars[i].High), low |-> Num(bars[i].Low),
                   volume |-> Num(bars[i].Volume)],
        moving_averages |-> [sma_20 |-> RollingMean(xs, SmaShort, i),
                             sma_50 |-> RollingMean(xs, SmaMid, i),
                             sma_200 |-> RollingMean(xs, SmaLong, i)],
        momentum |-> [rsi |-> Rsi(xs, i),
                      macd |-> Macd(xs)[i],
                      signal_line |-> Ewm(Macd(xs), SpanSignal, i)],
        volatility |-> [bollinger_upper |-> Surd(middle, 2, RollingVar(xs, BollWindow, i)),
                        bollinger_middle |-> middle,
                        bollinger_lower |-> Surd(middle, -2, RollingVar(xs, BollWindow, i))]]

NoSnapshot == [none |-> TRUE]

\* TechnicalResult answering a frame without bars with a snapshot of NaN.
TechnicalResult_NaNSnapshot(bars) ==
    IF bars = <<>>
    THEN [op |-> "technical", status |-> "ok",
          snap |-> [price |-> [current |-> NaN, open |-> NaN, high |-> NaN,
                               low |-> NaN, volume |-> NaN],
                    moving_averages |-> [sma_20 |-> NaN, sma_50 |-> NaN, sma_200 |-> NaN],
                    momentum |-> [rsi |-> NaN, macd |-> NaN, signal_line |-> NaN],
                    volatility |-> [bollinger_upper |-> NaN, bollinger_middle |-> NaN,
                                    bollinger_lower |-> NaN]]]
    ELSE [op |-> "technical", status |-> "ok", snap |-> TechnicalIndicators(bars)]

\* What calculate_technical_indicators returns: latest = hist.iloc[-1] raises
\* IndexError on a frame without bars.
TechnicalResult(bars) ==
    IF bars = <<>>
    THEN [op |-> "technical", status |-> "error", snap |-> NoSnapshot]
    ELSE [op |-> "technical", status |-> "ok", snap |-> TechnicalIndicators(bars)]

\* hist['SMA_20'] = ... to hist['BB_Lower'] = ...: the columns are set on the
\* frame that was passed in.
ColumnsAfter(columns) == columns \cup TechnicalColumns

\* calculate_technical_indicators(hist); when it raises, the columns have
\* been set already.
CalculateTechnicalIndicators ==
    /\ hist.columns # {}
    /\ hist' = [hist EXCEPT !.columns = ColumnsAfter(@)]
    /\ result' = TechnicalResult(hist.bars)
    /\ UNCHANGED <<now, dirExists, dir, last, agents, pipeline, news>>

\* hist['Close'].pct_change().dropna(): one return per bar but the first.
Returns(xs) ==
    [i \in 1..(Len(xs) - 1) |-> FDiv(FSub(xs[i + 1], xs[i]), xs[i])]

\* The square of returns.std() (ddof = 1): NaN for fewer than two returns.
SampleVar(rs) ==
    IF Len(rs) < 2 THEN NaN
    ELSE LET m == FDiv(FSum(rs, 1, Len(rs)), Num(Len(rs)))
             sq == [j \in 1..Len(rs) |-> FMul(FSub(rs[j], m), FSub(rs[j], m))]
         IN FDiv(FSum(sq, 1, Len(rs)), Num(Len(rs) - 1))

\* rs with x put in before the first element greater than it.
RECURSIVE Insert(_, _)
Insert(rs, x) ==
    IF rs = <<>> THEN <<x>>
    ELSE IF FLess(x, rs[1]) THEN <<x>> \o rs
    ELSE <<rs[1]>> \o Insert(Tail(rs), x)

RECURSIVE Sorted(_)
Sorted(rs) == IF rs = <<>> THEN <<>> ELSE Insert(Sorted(Tail(rs)), rs[1])

\* Percentile counting q from the top: the (100 - q)-th percentile.
Percentile_FromTop(rs, q) ==
    LET srt == Sorted(rs)
        n == Len(rs)
        lo == ((n - 1) * (100 - q)) \div 100
        hi == IF lo + 1 > n - 1 THEN n - 1 ELSE lo + 1
        frac == Rat(((n - 1) * (100 - q)) % 100, 100)
    IN FAdd(srt[lo + 1], FMul(frac, FSub(srt[hi + 1], srt[lo + 1])))

\* np.percentile(rs, q) of a non-empty rs: linear interpolation between the
\* order statistics around position (n - 1) q / 100.
Percentile(rs, q) ==
    LET srt == Sorted(rs)
        n == Len(rs)
        lo == ((n - 1) * q) \div 100
        hi == IF lo + 1 > n - 1 THEN n - 1 ELSE lo + 1
        frac == Rat(((n - 1) * q) % 100, 100)
    IN FAdd(srt[lo + 1], FMul(frac, FSub(srt[hi + 1], srt[lo + 1])))

\* prices.expanding(min_periods=1).max(), at bar i
RECURSIVE Peak(_, _)
Peak(xs, i) ==
    IF i = 1 THEN xs[1]
    ELSE IF FLess(Peak(xs, i - 1), xs[i]) THEN xs[i] ELSE Peak(xs, i - 1)

\* drawdown = (prices - peak) / peak
Drawdown(xs) == [i \in 1..Len(xs) |-> FDiv(FSub(xs[i], Peak(xs, i)), Peak(xs, i))]

\* The least of fs[1..i].
RECURSIVE MinUpTo(_, _)
MinUpTo(fs, i) ==
    IF i = 1 THEN fs[1]
    ELSE IF FLess(fs[i], MinUpTo(fs, i - 1)) THEN fs[i] ELSE MinUpTo(fs, i - 1)

\* MaxDrawdown measured from the first price instead of the running peak.
MaxDrawdown_FromFirst(xs) ==
    IF Len(xs) = 0 THEN NaN
    ELSE MinUpTo([i \in 1..Len(xs) |-> FDiv(FSub(xs[i], xs[1]), xs[1])], Len(xs))

\* calculate_max_drawdown(prices): drawdown.min(), NaN without prices.
MaxDrawdown(xs) ==
    IF Len(xs) = 0 THEN NaN ELSE MinUpTo(Drawdown(xs), Len(xs))

\* Whether np.percentile raises: it does on an array without elements.
PercentileRaises_Never(rs) == FALSE

PercentileRaises(rs) == Len(rs) = 0

\* The dict calculate_volatility_metrics returns.
VolatilityMetrics(bars) ==
    LET xs == Close(bars)
        rs == Returns(xs)
    IN [daily_volatility |-> Surd(Num(0), 1, SampleVar(rs)),
        annualized_volatility |-> Surd(Num(0), 1, FMul(SampleVar(rs), Num(TradingDays))),
        var_95 |-> IF Len(rs) = 0 THEN NaN ELSE Percentile(rs, 5),
        var_99 |-> IF Len(rs) = 0 THEN NaN ELSE Percentile(rs, 1),
        max_drawdown |-> MaxDrawdown(xs)]

\* calculate_volatility_metrics(hist)
CalculateVolatilityMetrics ==
    /\ hist.columns # {}
    /\ result' = IF PercentileRaises(Returns(Close(hist.bars)))
                 THEN [op |-> "risk", status |-> "error", snap |-> NoSnapshot]
                 ELSE [op |-> "risk", status |-> "ok", snap |-> VolatilityMetrics(hist.bars)]
    /\ UNCHANGED <<now, dirExists, dir, last, agents, hist, pipeline, news>>

\* An analysis holds the frame stock.history returned.
EngineInit ==
    /\ now = StartClock
    /\ dirExists = FALSE
    /\ dir = <<>>
    /\ last = NoCall
    /\ agents = NoAgents
    /\ hist \in Frames
    /\ result = NoResult
    /\ pipeline = NoPipeline
    /\ news = NoNews

EngineNext ==
    \/ CalculateTechnicalIndicators
    \/ CalculateVolatilityMetrics

EngineSpec == EngineInit /\ [][EngineNext]_vars

---------------------------------------------------------------------------
(* Claims on the indicator engine.  SmaLong bars stand for the 200 bars of *)
(* a fully populated result, SmaShort for the 20 of the shortest window.   *)

TechDone == result.op = "technical" /\ result.status = "ok"
RiskDone == result.op = "risk" /\ result.status = "ok"
TechStep == result'.op = "technical" /\ (result' # result \/ hist' # hist)

\* The closes of the frame, as integers.
Closes == [i \in 1..Len(hist.bars) |-> hist.bars[i].Close]
Flat == \A i \in 1..Len(Closes) : Closes[i] = Closes[1]
LinearRise ==
    \E step \in 1..40 : \A i \in 2..Len(Closes) : Closes[i] = Closes[i - 1] + step

Groups == {"price", "moving_averages", "momentum", "volatility"}
WindowFields ==
    {<<"moving_averages", "sma_20">>, <<"moving_averages", "sma_50">>,
     <<"moving_averages", "sma_200">>, <<"volatility", "bollinger_upper">>,
     <<"volatility", "bollinger_middle">>, <<"volatility", "bollinger_lower">>}

(* C12: a frame of at least 200 bars with positive closes gives a value    *)
(* that is not null in every field of the snapshot; a frame of fewer than  *)
(* 20 bars gives null in the three moving averages and the three Bollinger *)
(* fields.                                                                 *)
C12_PopulatedByLength ==
    TechDone =>
        /\ Len(hist.bars) >= SmaLong =>
              \A g \in Groups : \A f \in DOMAIN result.snap[g] : ~IsNull(result.snap[g][f])
        /\ Len(hist.bars) < SmaShort =>
              \A gf \in WindowFields : IsNull(result.snap[gf[1]][gf[2]])

(* C13: with the trailing 14 deltas there, RSI lies in [0, 100], and it is *)
(* 100 whenever none of those deltas is negative, also when all are zero.  *)
C13_RsiRange ==
    (TechDone /\ Len(hist.bars) > RsiWindow) =>
        /\ FLeq(Num(0), result.snap.momentum.rsi)
        /\ FLeq(result.snap.momentum.rsi, Num(100))
        /\ (\A i \in (Len(Closes) - RsiWindow + 1)..Len(Closes) : Closes[i] >= Closes[i - 1])
              => result.snap.momentum.rsi = Num(100)

(* C14: calculate_technical_indicators on a frame without bars fails and   *)
(* returns no snapshot.                                                    *)
C14_EmptySeriesFails ==
    (result.op = "technical" /\ hist.bars = <<>>) =>
        result.status = "error" /\ result.snap = NoSnapshot

\* The computation was run on a frame without bars and failed.
C14_Witness ==
    /\ result.op = "technical"
    /\ hist.bars = <<>>
    /\ result.status = "error"
    /\ TechnicalColumns \subseteq hist.columns

(* C15: calculate_volatility_metrics on a frame without bars or with a     *)
(* single bar fails; it returns no snapshot of NaN values.                 *)
C15_ShortSeriesFails ==
    (result.op = "risk" /\ Len(hist.bars) <= 1) =>
        result.status = "error" /\ result.snap = NoSnapshot

\* The computation was run on a single bar and failed.
C15_Witness ==
    /\ result.op = "risk"
    /\ Len(hist.bars) = 1
    /\ result.status = "error"

\* The highest close up to bar i, and the drawdown at bar i.
RunningMax(i) == CHOOSE m \in {Closes[j] : j \in 1..i} : \A j \in 1..i : Closes[j] <= m
DrawdownAt(i) == Rat(Closes[i] - RunningMax(i), RunningMax(i))

\* The bars of the highest and of the lowest close.
PeakBars == {i \in 1..Len(Closes) : \A j \in 1..Len(Closes) : Closes[j] <= Closes[i]}
TroughBars == {i \in 1..Len(Closes) : \A j \in 1..Len(Closes) : Closes[i] <= Closes[j]}

(* C16: max drawdown is the least, over the bars, of                       *)
(* (close - runningMax) / runningMax; it lies in [-1, 0]; when the lowest  *)
(* close comes after the highest it is (trough - peak) / peak; closes      *)
(* 100, 120, 80, 90 give -1/3.                                             *)
C16_MaxDrawdown ==
    RiskDone =>
        /\ \E i \in 1..Len(Closes) : result.snap.max_drawdown = DrawdownAt(i)
        /\ \A i \in 1..Len(Closes) : FLeq(result.snap.max_drawdown, DrawdownAt(i))
        /\ FLeq(Num(-1), result.snap.max_drawdown)
        /\ FLeq(result.snap.max_drawdown, Num(0))
        /\ \A pk \in PeakBars, tr \in TroughBars :
              pk < tr => result.snap.max_drawdown
                            = Rat(Closes[tr] - Closes[pk], Closes[pk])
        /\ Closes = <<100, 120, 80, 90>> => result.snap.max_drawdown = Rat(-1, 3)

\* The metrics of closes 100, 120, 80, 90, with a drawdown of -1/3.
C16_Witness ==
    /\ RiskDone
    /\ Closes = <<100, 120, 80, 90>>
    /\ result.snap.max_drawdown = [n |-> -1, d |-> 3]

IsZero(x) == IF "v" \in DOMAIN x THEN x.a = Num(0) /\ x.v = Num(0) ELSE x = Num(0)

(* C17: on a flat frame of at least two bars the daily and the annualized  *)
(* volatility, var_95, var_99 and max_drawdown are all 0.                  *)
C17_FlatSeriesIsZero ==
    (result.op = "risk" /\ Flat /\ Len(hist.bars) >= 2) =>
        /\ result.status = "ok"
        /\ \A f \in {"daily_volatility", "annualized_volatility", "var_95", "var_99",
                     "max_drawdown"} : IsZero(result.snap[f])

(* C18: on a frame of 252 bars whose closes rise by a constant step,       *)
(* sma_20 > sma_50 > sma_200 and macd > 0.                                 *)
C18_UptrendOrdersAverages ==
    (TechDone /\ LinearRise /\ Len(hist.bars) >= SmaLong) =>
        /\ FLess(result.snap.moving_averages.sma_50, result.snap.moving_averages.sma_20)
        /\ FLess(result.snap.moving_averages.sma_200, result.snap.moving_averages.sma_50)
        /\ FLess(Num(0), result.snap.momentum.macd)

\* The indicators of a frame of MaxBars bars rising by 10 a bar.
C18_Witness ==
    /\ TechDone
    /\ Len(hist.bars) = MaxBars
    /\ \A i \in 2..Len(Closes) : Closes[i] = Closes[i - 1] + 10
    /\ FLess(Num(0), result.snap.momentum.macd)

(* C19: calculate_technical_indicators leaves the frame passed to it as it *)
(* was, bars and columns, and a second call on the same frame returns the  *)
(* same snapshot.                                                          *)
C19_PureTransform ==
    [][TechStep =>
          /\ hist' = hist
          /\ result.op = "technical" => result' = result]_vars

---------------------------------------------------------------------------
(* C20: read_latest_json_file resolves as find_latest_json_file does: in   *)
(* every state of the directory, for every (symbol, prefix), it returns    *)
(* None exactly when find_latest_json_file does, and otherwise what        *)
(* json.load gives on the file find_latest_json_file names.                *)
C20_ReadResolvesAsFind ==
    \A s \in Symbols, p \in Prefixes :
        /\ ReadLatest(dir, s, p).status = "none" <=> FindLatest(dir, s, p).status = "none"
        /\ FindLatest(dir, s, p).status = "ok" =>
              /\ FindLatest(dir, s, p).path \in Names(dir)
              /\ ReadLatest(dir, s, p) = JsonLoad(Content(dir, FindLatest(dir, s, p).path))

\* A read returned the content of the file find names, where another
\* matching file, of a greater name, holds something else.
C20_Witness ==
    /\ last.op = "read"
    /\ last.status = "ok"
    /\ last.value = JsonLoad(Content(dir, FindLatest(dir, last.symbol, last.prefix).path)).value
    /\ \E n \in Matching(dir, last.symbol, last.prefix) :
          /\ LexLess(FindLatest(dir, last.symbol, last.prefix).path, n)
          /\ JsonLoad(Content(dir, n)).value # last.value

---------------------------------------------------------------------------
\* The files of d that d2 does not hold as they are.
Touched(d, d2) == {n \in Names(d) \cup Names(d2) :
                      n \notin Names(d) \/ n \notin Names(d2) \/ FileOf(d, n) # FileOf(d2, n)}

(* C21, as claimed: an invocation stores a snapshot only when no matching  *)
(* snapshot younger than 24 hours exists; when one exists it returns that  *)
(* file's path and leaves the files as they are; it writes at most one     *)
(* file.                                                                   *)
C21_StoresOnlyWithoutFresh ==
    [][\A p \in Procs :
          /\ FetchStep(p) =>
                /\ ~HasFresh(dir, now, SymA, CorpInfo)
                /\ Cardinality(Touched(dir, dir')) <= 1
          /\ (LookupStep(p) /\ HasFresh(dir, now, SymA, CorpInfo)) =>
                /\ agents'[p].pc = "done"
                /\ agents'[p].used \in Matching(dir, SymA, CorpInfo)
                /\ now - Ctime(dir, agents'[p].used) < SecPerDay
                /\ dir' = dir]_vars

(* C21, amended: an invocation decides to store exactly when its lookup    *)
(* finds no matching snapshot younger than 24 hours, and then stores once, *)
(* whatever has been stored since; when the lookup finds one, the          *)
(* invocation returns that file's path and leaves the files as they are;   *)
(* it writes at most one file.                                             *)
C21_StoresOnlyAfterStaleLookup ==
    [][\A p \in Procs :
          /\ (agents'[p].pc = "fetch" /\ agents[p].pc # "fetch") =>
                LookupStep(p) /\ ~HasFresh(dir, now, SymA, CorpInfo)
          /\ FetchStep(p) =>
                /\ agents[p].pc = "fetch"
                /\ Cardinality(Touched(dir, dir')) <= 1
          /\ LookupStep(p) => dir' = dir
          /\ (LookupStep(p) /\ HasFresh(dir, now, SymA, CorpInfo)) =>
                /\ agents'[p].pc = "done"
                /\ agents'[p].used \in Matching(dir, SymA, CorpInfo)
                /\ now - Ctime(dir, agents'[p].used) < SecPerDay
          /\ (dir' # dir) => \E q \in Procs : FetchStep(q)]_vars

\* One invocation has stored a snapshot and the other has returned the path
\* of that snapshot, found fresh.
C21_Witness ==
    \E p, q \in Procs :
        /\ agents[p].pc = "done" /\ agents[p].wrote # None
        /\ agents[q].pc = "done" /\ agents[q].used = agents[p].wrote
        /\ agents[q].wrote = None

---------------------------------------------------------------------------
\* The sum of f[a..b], in integers.
RECURSIVE IntSum(_, _, _)
IntSum(f, a, b) == IF a > b THEN 0 ELSE IntSum(f, a, b - 1) + f[b]

\* The sample variance of the last w closes of the frame:
\* (w * sum of squares - square of the sum) / (w (w - 1)).
TailVariance(w) ==
    LET n == Len(Closes)
        sq == [j \in 1..n |-> Closes[j] * Closes[j]]
    IN Rat(w * IntSum(sq, n - w + 1, n) - IntSum(Closes, n - w + 1, n) * IntSum(Closes, n - w + 1, n),
           w * (w - 1))

(* C22: in every snapshot bollinger_middle equals sma_20; when the         *)
(* Bollinger fields are defined, upper and lower are the middle plus and   *)
(* minus twice the sample standard deviation of the last 20 closes, so     *)
(* lower <= middle <= upper.                                               *)
C22_BollingerBands ==
    TechDone =>
        LET v == result.snap.volatility
        IN /\ v.bollinger_middle = result.snap.moving_averages.sma_20
           /\ Len(hist.bars) >= BollWindow =>
                 /\ ~IsNull(v.bollinger_upper) /\ ~IsNull(v.bollinger_lower)
                 /\ v.bollinger_upper.a = v.bollinger_middle /\ v.bollinger_upper.k = 2
                 /\ v.bollinger_lower.a = v.bollinger_middle /\ v.bollinger_lower.k = -2
                 /\ v.bollinger_upper.v = TailVariance(BollWindow)
                 /\ v.bollinger_lower.v = TailVariance(BollWindow)
                 /\ FLeq(Num(0), v.bollinger_upper.v)
           /\ Len(hist.bars) < BollWindow =>
                 IsNull(v.bollinger_upper) /\ IsNull(v.bollinger_lower)

\* A snapshot whose bands lie apart from the middle.
C22_Witness ==
    /\ TechDone
    /\ Len(hist.bars) = MaxBars
    /\ FLess(Num(0), result.snap.volatility.bollinger_upper.v)
    /\ result.snap.volatility.bollinger_middle = result.snap.moving_averages.sma_20

---------------------------------------------------------------------------
(* The report pipeline: the writer, the reviewer, the refactoring agent    *)
(* and the PDF agent, run one after another on one session state; the PDF  *)
(* agent calls generate_pdf_report.                                        *)

MaxKeys == 3        \* the most keys of a report_data passed to generate_pdf_report

\* The order the stages run in.
StageOrder == <<"writer_agent", "reviewer_agent", "ReportRefactorAgent", "pdf_report_agent">>

\* OutputKey with the reviewer's key misspelt.
OutputKey_Misspelt(stage) ==
    CASE stage = "writer_agent" -> "generated_report"
      [] stage = "reviewer_agent" -> "review_coments"
      [] stage = "ReportRefactorAgent" -> "final_report"
      [] stage = "pdf_report_agent" -> "pdf_report_path"

\* output_key of each agent
OutputKey(stage) ==
    CASE stage = "writer_agent" -> "generated_report"
      [] stage = "reviewer_agent" -> "review_comments"
      [] stage = "ReportRefactorAgent" -> "final_report"
      [] stage = "pdf_report_agent" -> "pdf_report_path"

\* The session keys each agent's instruction names as its input.
Reads(stage) ==
    CASE stage = "writer_agent" -> {"merged_analysis", "equity_products_recommendation"}
      [] stage = "reviewer_agent" -> {"generated_report"}
      [] stage = "ReportRefactorAgent" -> {"generated_report", "review_comments"}
      [] stage = "pdf_report_agent" -> {"final_report"}

NoIssues == "No major issues found."

\* The value under key in the session state ("" when the key was not written).
SessionGet(session, key) ==
    IF \E i \in 1..Len(session) : session[i].key = key
    THEN session[CHOOSE i \in 1..Len(session) :
                    session[i].key = key /\ \A j \in (i + 1)..Len(session) : session[j].key # key].value
    ELSE ""

\* A stage runs when the stages before it have: its output is stored under
\* its output_key.
RunStage(stage, value, report_data) ==
    /\ Len(pipeline.done) < Len(StageOrder)
    /\ stage = StageOrder[Len(pipeline.done) + 1]
    /\ pipeline' = [done |-> Append(pipeline.done, stage),
                    session |-> Append(pipeline.session,
                                       [key |-> OutputKey(stage), value |-> value,
                                        by |-> stage, read |-> Reads(stage)]),
                    report_data |-> report_data]

\* writer_agent writes the report.
RunWriter ==
    /\ RunStage("writer_agent", "report", pipeline.report_data)
    /\ UNCHANGED <<now, dirExists, dir, last, agents, hist, result, news>>

\* reviewer_agent lists its comments, or states that it has none.
RunReviewer ==
    /\ \E comments \in {NoIssues, "comments"} : RunStage("reviewer_agent", comments, pipeline.report_data)
    /\ UNCHANGED <<now, dirExists, dir, last, agents, hist, result, news>>

\* ReportRefactorAgent rewrites the report on the comments; "If the review
\* comments state 'No major issues found,' return the original report unchanged."
RunRefactor ==
    /\ RunStage("ReportRefactorAgent",
                IF SessionGet(pipeline.session, "review_comments") = NoIssues
                THEN SessionGet(pipeline.session, "generated_report")
                ELSE "revised report",
                pipeline.report_data)
    /\ UNCHANGED <<now, dirExists, dir, last, agents, hist, result, news>>

\* sections: the keys in the order of the report, with their display names.
Sections ==
    << <<"executive_summary", "Executive Summary">>,
       <<"company_overview", "Company Overview">>,
       <<"industry_analysis", "Industry Analysis">>,
       <<"fundamental_analysis", "Fundamental Analysis">>,
       <<"technical_analysis", "Technical Analysis">>,
       <<"sentiment_analysis", "Sentiment Analysis">>,
       <<"risk_analysis", "Risk Analysis">>,
       <<"investment_recommendations", "Investment Recommendations">>,
       <<"risk_factors", "Risk Factors">>,
       <<"conclusion", "Conclusion">> >>

\* The keys and contents the PDF agent may pass: some sections, a key that is
\* no section, contents that are empty or not.
KeyPool == {"conclusion", "executive_summary", "technical_analysis", "appendix"}
Contents == {"", "text"}

\* A report_data dict: its items in the order of the dict, no key twice.
ReportData ==
    UNION {{rd \in [1..n -> [key : KeyPool, content : Contents]] :
               \A i, j \in 1..n : i # j => rd[i].key # rd[j].key} : n \in 0..MaxKeys}

\* report_data.get(key, "")
Get(rd, key) ==
    IF \E i \in 1..Len(rd) : rd[i].key = key
    THEN rd[CHOOSE i \in 1..Len(rd) : rd[i].key = key].content
    ELSE ""

Paragraph(text, style) == [kind |-> "Paragraph", text |-> text, style |-> style]
Spacer(height) == [kind |-> "Spacer", height |-> height]

\* content = report_data.get(key, ""); if content: the four flowables of the
\* section
SectionStory(rd, section) ==
    IF Get(rd, section[1]) # ""
    THEN <<Paragraph(section[2], "Heading2"), Spacer(8),
           Paragraph(Get(rd, section[1]), "Normal"), Spacer(16)>>
    ELSE <<>>

\* The display name of a key, "" when it is no section.
DisplayName(key) ==
    IF \E k \in 1..Len(Sections) : Sections[k][1] = key
    THEN Sections[CHOOSE k \in 1..Len(Sections) : Sections[k][1] = key][2]
    ELSE ""

\* Story going through the items of report_data instead of the sections.
RECURSIVE StoryFrom_DictOrder(_, _)
StoryFrom_DictOrder(rd, k) ==
    IF k > Len(rd) THEN <<>>
    ELSE (IF rd[k].content # "" /\ DisplayName(rd[k].key) # ""
          THEN <<Paragraph(DisplayName(rd[k].key), "Heading2"), Spacer(8),
                 Paragraph(rd[k].content, "Normal"), Spacer(16)>>
          ELSE <<>>) \o StoryFrom_DictOrder(rd, k + 1)

\* for key, display_name in sections: ..., from section k on
RECURSIVE StoryFrom(_, _)
StoryFrom(rd, k) ==
    IF k > Len(Sections) THEN <<>>
    ELSE SectionStory(rd, Sections[k]) \o StoryFrom(rd, k + 1)

\* The story generate_pdf_report builds: the title, then the sections.
Story(rd) ==
    <<Paragraph("Investment Research Report", "CustomTitle"), Spacer(24)>> \o StoryFrom(rd, 1)

\* pdf_report_agent calls generate_pdf_report(report_data, output_filename)
\* and reports where the file is.
RunPdf ==
    /\ \E rd \in ReportData :
          /\ RunStage("pdf_report_agent", "../agents_sample_reports/report.pdf", rd)
          /\ result' = [op |-> "pdf", story |-> Story(rd)]
    /\ UNCHANGED <<now, dirExists, dir, last, agents, hist, news>>

PipelineNext ==
    \/ RunWriter
    \/ RunReviewer
    \/ RunRefactor
    \/ RunPdf

PipelineSpec == Init /\ [][PipelineNext]_vars

---------------------------------------------------------------------------
\* The entry of the session state a stage wrote, and its place.
WrittenBy(stage) == CHOOSE i \in 1..Len(pipeline.session) : pipeline.session[i].by = stage
HasRun(stage) == \E i \in 1..Len(pipeline.done) : pipeline.done[i] = stage

Headings(story) ==
    LET hs == SelectSeq(story, LAMBDA f : f.kind = "Paragraph" /\ f.style = "Heading2")
    IN [i \in 1..Len(hs) |-> hs[i].text]

\* The sections report_data has a content for, in the order of the report.
Filled(rd) ==
    SelectSeq(Sections, LAMBDA sec : \E i \in 1..Len(rd) :
                                        rd[i].key = sec[1] /\ rd[i].content # "")

(* C24: generate_pdf_report emits the sections in the fixed order, from    *)
(* executive_summary to conclusion, whatever the order of the keys of      *)
(* report_data; a section whose key is missing or whose content is empty   *)
(* gets no heading and no body; a key that is no section is ignored.       *)
C24_SectionsInFixedOrder ==
    result.op = "pdf" =>
        LET rd == pipeline.report_data
            story == result.story
        IN /\ Headings(story) = [i \in 1..Len(Filled(rd)) |-> Filled(rd)[i][2]]
           /\ Len(story) = 2 + 4 * Len(Filled(rd))
           /\ \A i \in 1..Len(Filled(rd)) :
                 /\ story[4 * i - 1] = Paragraph(Filled(rd)[i][2], "Heading2")
                 /\ story[4 * i + 1] = Paragraph(Get(rd, Filled(rd)[i][1]), "Normal")
           /\ \A i \in 1..Len(story) :
                 story[i].kind = "Paragraph" => story[i].text \notin {"appendix", ""}

\* A report whose keys came in another order than the sections, with an empty
\* section and a key that is no section.
C24_Witness ==
    /\ result.op = "pdf"
    /\ Len(pipeline.report_data) = 3
    /\ pipeline.report_data[1] = [key |-> "conclusion", content |-> "text"]
    /\ pipeline.report_data[2] = [key |-> "appendix", content |-> "text"]
    /\ pipeline.report_data[3].key = "executive_summary"
    /\ Headings(result.story) = <<"Conclusion">>

---------------------------------------------------------------------------
\* The names store gives the files of (symbol, prefix).
StoredUnder(symbol, prefix) == {FilePath(symbol, prefix, t) : t \in 0..MaxClock}

(* C25: findLatest(category, symbol) and readLatest(category, symbol)      *)
(* never return a file that was stored under another symbol or another     *)
(* category, also when one category is an underscore-delimited prefix of   *)
(* another.                                                                *)
C25_LookupsAreIsolated ==
    /\ (last.op = "find" /\ last.status = "ok") =>
          last.path \in StoredUnder(last.symbol, last.prefix)
    /\ (last.op = "read" /\ last.status # "none") =>
          FindLatest(dir, last.symbol, last.prefix).path \in StoredUnder(last.symbol, last.prefix)

(* C26: every file findLatest can return holds a complete JSON document: a *)
(* store that fails part-way through writing never leaves an empty or      *)
(* truncated file under a matching name.                                   *)
C26_LatestIsComplete ==
    \A s \in Symbols, p \in Prefixes :
        FindLatest(dir, s, p).status = "ok" =>
            Content(dir, FindLatest(dir, s, p).path).complete

---------------------------------------------------------------------------
\* The daily returns of the frame, from its closes.
DailyReturn(i) == Rat(Closes[i + 1] - Closes[i], Closes[i])
ReturnDays == 1..(Len(Closes) - 1)

\* x lies between the smallest and the largest daily return.
WithinReturns(x) ==
    /\ \E i \in ReturnDays : FLeq(DailyReturn(i), x)
    /\ \E i \in ReturnDays : FLeq(x, DailyReturn(i))

(* C29: for every series of at least two bars var_99 <= var_95, and both   *)
(* lie between the smallest and the largest daily return of the series.    *)
C29_VarOrdered ==
    (result.op = "risk" /\ Len(hist.bars) >= 2) =>
        /\ result.status = "ok"
        /\ FLeq(result.snap.var_99, result.snap.var_95)
        /\ WithinReturns(result.snap.var_95)
        /\ WithinReturns(result.snap.var_99)

\* The metrics of a frame whose returns differ: var_99 is below var_95, above
\* the worst return, and var_95 below the best.
C29_Witness ==
    /\ RiskDone
    /\ Len(hist.bars) = MaxBars
    /\ FLess(result.snap.var_99, result.snap.var_95)
    /\ \A i \in ReturnDays : DailyReturn(i) # result.snap.var_99
    /\ \E i \in ReturnDays : FLess(result.snap.var_95, DailyReturn(i))

---------------------------------------------------------------------------
(* IndustryInfoUtils: its own store_info and                               *)
(* find_local_stored_latest_industry_info_file, on a directory FileUtils   *)
(* is used on as well.                                                     *)

IndInfo == <<105, 105>>                   \* "ii", standing for "industry_info"

\* The info dicts handed to store_info: get_industry_info returns one without
\* a "symbol" entry.
IndustryPayloads == Payloads \cup {[symbol |-> None, body |-> <<IntLeaf>>]}
IndustrySymbols == {SymA, Unknown}

\* IndustrySymbolOf falling back to the empty string.
IndustrySymbolOf_Empty(info, symbol) ==
    IF symbol # None THEN symbol
    ELSE IF info.symbol # None THEN info.symbol ELSE None

\* if symbol is None: symbol = info.get("symbol", "unknown")
IndustrySymbolOf(info, symbol) ==
    IF symbol # None THEN symbol
    ELSE IF info.symbol # None THEN info.symbol ELSE Unknown

\* f"{symbol}_industry_info_{timestamp}.json"
IndustryFilePath(symbol, t) ==
    symbol \o Underscore \o IndInfo \o Underscore \o Strftime(t) \o JsonExt

\* glob.glob(f"{symbol}_industry_info_*.json")
IndustryGlob(d, symbol) ==
    LET pre == symbol \o Underscore \o IndInfo \o Underscore
    IN SelectSeq(d, LAMBDA f : /\ Len(f.name) >= Len(pre) + Len(JsonExt)
                               /\ StartsWith(f.name, pre)
                               /\ EndsWith(f.name, JsonExt))

\* What find_local_stored_latest_industry_info_file returns on directory d.
IndustryFindLatest(d, symbol) ==
    LET files == IndustryGlob(d, symbol)
    IN IF files = <<>>
       THEN [status |-> "none", path |-> None]
       ELSE [status |-> "ok", path |-> MaxByCtime(files).name]

\* IndustryInfoUtils.store_info(info, symbol, directory)
StoreInfo(info, symbolArg) ==
    LET symbol == IndustrySymbolOf(info, symbolArg)
        file_path == IndustryFilePath(symbol, now)
    IN /\ file_path \in Names(dir) \/ Len(dir) < MaxFiles
       /\ \E j \in NewPlaces(dir, now) : dir' = WriteFile(dir, j, file_path, info, now)
       /\ dirExists' = TRUE
       /\ last' = [NoCall EXCEPT
                     !.op = "store", !.symbol = symbol, !.prefix = IndInfo,
                     !.info = info, !.at = now,
                     !.status = IF DumpRaises(info) THEN "error" ELSE "ok",
                     !.path = IF DumpRaises(info) THEN None ELSE file_path,
                     !.mkdir = ~dirExists]
       /\ UNCHANGED <<now, agents, hist, result, pipeline, news>>

\* IndustryInfoUtils.find_local_stored_latest_industry_info_file(symbol, directory)
FindLocalStoredLatestIndustryInfoFile(symbol) ==
    /\ last' = [NoCall EXCEPT
                  !.op = "find", !.symbol = symbol, !.prefix = IndInfo,
                  !.status = IndustryFindLatest(dir, symbol).status,
                  !.path = IndustryFindLatest(dir, symbol).path,
                  !.prevPath = PrevPath]
    /\ UNCHANGED <<now, dirExists, dir, agents, hist, result, pipeline, news>>

\* Calls of IndustryInfoUtils and of FileUtils with prefix "industry_info" on
\* one directory.
IndustryNext ==
    \/ Tick /\ UNCHANGED <<agents, hist, result, pipeline, news>>
    \/ \E info \in IndustryPayloads, s \in SymbolArgs : StoreInfo(info, s)
    \/ \E s \in IndustrySymbols : FindLocalStoredLatestIndustryInfoFile(s)
    \/ \E info \in IndustryPayloads, s \in SymbolArgs :
          StoreJsonInfo(info, s, IndInfo) /\ UNCHANGED <<agents, hist, result, pipeline, news>>
    \/ \E s \in IndustrySymbols :
          FindLatestJsonFile(s, IndInfo) /\ UNCHANGED <<agents, hist, result, pipeline, news>>

IndustrySpec == Init /\ [][IndustryNext]_vars

(* C28: store_info and find_local_stored_latest_industry_info_file behave, *)
(* after every sequence of calls on the same directory, exactly like       *)
(* store_json_info and find_latest_json_file with prefix "industry_info":  *)
(* the same file name, content, symbol defaulting and latest-file choice.  *)
C28_IndustryUtilsAsFileUtils ==
    [][/\ \A info \in IndustryPayloads, s \in SymbolArgs :
             StoreInfo(info, s) <=>
                 (StoreJsonInfo(info, s, IndInfo) /\ UNCHANGED <<agents, hist, result, pipeline, news>>)
       /\ \A s \in IndustrySymbols :
             FindLocalStoredLatestIndustryInfoFile(s) <=>
                 (FindLatestJsonFile(s, IndInfo) /\ UNCHANGED <<agents, hist, result, pipeline, news>>)]_vars

\* The latest of two files stored without a symbol, under "unknown", was found.
C28_Witness ==
    /\ last.op = "find"
    /\ last.symbol = Unknown
    /\ last.prefix = IndInfo
    /\ last.status = "ok"
    /\ Len(IndustryGlob(dir, Unknown)) = 2
    /\ \E f \in {dir[k] : k \in 1..Len(dir)} : f.name # last.path /\ f.ctime < Ctime(dir, last.path)

---------------------------------------------------------------------------
(* News sentiment: analyze_news_sentiment scores the titles of the first   *)
(* articles of stock.news with calculate_text_sentiment.  A title is kept  *)
(* as the set of the keywords that occur in its lower-cased text.          *)

NewsCap == 10       \* news[:10]
MaxNews == 11       \* the longest news list
ShortNews == 2      \* lists up to this length draw on every title

positive_keywords == <<"gain", "growth", "positive", "up", "bull", "strong">>
negative_keywords == <<"loss", "decline", "negative", "down", "bear", "weak">>

\* Titles: without a keyword, with some of one kind, of both kinds, with all.
Titles ==
    { {}, {"gain"}, {"loss"}, {"gain", "growth", "strong"}, {"loss", "weak", "down"},
      {"up", "down"}, {"gain", "bull", "weak"},
      {"gain", "growth", "positive", "up", "bull", "strong"},
      {"loss", "decline", "negative", "down", "bear", "weak"} }

\* An article: a dict with or without a "title" entry.
Articles == [has_title : {TRUE}, title : Titles] \cup {[has_title |-> FALSE, title |-> {}]}
LongArticles ==
    { [has_title |-> TRUE, title |-> {"gain", "growth", "strong"}],
      [has_title |-> TRUE, title |-> {"loss"}] }

\* stock.news: None, or a list of articles.
NewsInputs ==
    {[state |-> "none", articles |-> <<>>]}
        \cup UNION {{[state |-> "list", articles |-> as] : as \in [1..n -> Articles]}
                        : n \in 0..ShortNews}
        \cup UNION {{[state |-> "list", articles |-> as] : as \in [1..n -> LongArticles]}
                        : n \in (ShortNews + 1)..MaxNews}

\* The score after the loop over the first k words of keywords, each adding
\* step when it occurs in the text.
RECURSIVE Count(_, _, _, _)
Count(text, keywords, k, step) ==
    IF k = 0 THEN 0
    ELSE Count(text, keywords, k - 1, step) + (IF keywords[k] \in text THEN step ELSE 0)

Max(x, y) == IF FLess(x, y) THEN y ELSE x
Min(x, y) == IF FLess(y, x) THEN y ELSE x

\* TextSentiment without the clamp: score / 2.
TextSentiment_Unclamped(text) ==
    Rat(Count(text, positive_keywords, Len(positive_keywords), 1)
            + Count(text, negative_keywords, Len(negative_keywords), -1), 2)

\* calculate_text_sentiment(text): max(-1, min(1, score / 2))
TextSentiment(text) ==
    LET score == Count(text, positive_keywords, Len(positive_keywords), 1)
                     + Count(text, negative_keywords, Len(negative_keywords), -1)
    IN Max(Num(-1), Min(Num(1), Rat(score, 2)))

\* news[:10]
FirstArticles(as) == SubSeq(as, 1, IF Len(as) < NewsCap THEN Len(as) ELSE NewsCap)

\* article.get("title", "")
TitleOf(article) == IF article.has_title THEN article.title ELSE {}

\* What analyze_news_sentiment(news) returns.
NewsSentiment(nw) ==
    IF nw.state = "none" \/ nw.articles = <<>>
    THEN [sentiment_score |-> Num(0), article_count |-> 0]
    ELSE LET sentiment_scores ==
                 [k \in 1..Len(FirstArticles(nw.articles)) |->
                     TextSentiment(TitleOf(FirstArticles(nw.articles)[k]))]
         IN [sentiment_score |-> FDiv(FSum(sentiment_scores, 1, Len(sentiment_scores)),
                                      Num(Len(sentiment_scores))),
             article_count |-> Len(sentiment_scores)]

\* analyze_news_sentiment(news)
AnalyzeNewsSentiment ==
    /\ news.state # "unread"
    /\ result' = [op |-> "news", status |-> "ok", snap |-> NewsSentiment(news)]
    /\ UNCHANGED <<now, dirExists, dir, last, agents, hist, pipeline, news>>

\* analyze_sentiment has read stock.news.
SentimentInit ==
    /\ StoreInit
    /\ dir = <<>>
    /\ agents = NoAgents
    /\ hist = NoFrame
    /\ result = NoResult
    /\ pipeline = NoPipeline
    /\ news \in NewsInputs

SentimentNext == AnalyzeNewsSentiment

SentimentSpec == SentimentInit /\ [][SentimentNext]_vars

NewsDone == result.op = "news"
Half(k) == Rat(k, 2)

(* C30: calculate_text_sentiment returns a value of -1, -0.5, 0, 0.5, 1;   *)
(* analyze_news_sentiment scores at most the first 10 articles, so         *)
(* article_count <= 10 and sentiment_score lies in [-1, 1]; for an empty   *)
(* or missing news list it returns sentiment_score 0 and article_count 0.  *)
C30_NewsSentiment ==
    /\ \A k \in 1..Len(news.articles) :
          TextSentiment(TitleOf(news.articles[k])) \in {Half(j) : j \in -2..2}
    /\ NewsDone =>
          /\ result.snap.article_count <= 10
          /\ result.snap.article_count
                = (IF Len(news.articles) < 10 THEN Len(news.articles) ELSE 10)
          /\ FLeq(Num(-1), result.snap.sentiment_score)
          /\ FLeq(result.snap.sentiment_score, Num(1))
          /\ (news.state = "none" \/ Len(news.articles) = 0) =>
                /\ result.snap.sentiment_score = Num(0)
                /\ result.snap.article_count = 0

\* Eleven articles were read and ten scored; the eleventh would have changed
\* the mean.
C30_Witness ==
    /\ NewsDone
    /\ Len(news.articles) = 11
    /\ result.snap.article_count = 10
    /\ result.snap.sentiment_score = Num(1)
    /\ news.articles[11].title = {"loss"}

===========================================================================
